---- MODULE Spec2Model ----
(***************************************************************************)
(* wbplot/utils/images.py: hemisphere tags, unilateral -> bilateral        *)
(* padding, the shape validators, and the Cifti colour-table patcher       *)
(* (load / set_cmap / save).                                               *)
(*                                                                         *)
(* Scalars are integers (exactly representable floats).  A colour          *)
(* component is a record [dt, src, n, ch]: dt is the array dtype the       *)
(* component lives in ("float" or "int"), src/n/ch say where the value     *)
(* came from (colormap name and look-up-table index, or the custom         *)
(* mappable and the scalar it was called with).                            *)
(***************************************************************************)
EXTENDS Integers, Sequences, FiniteSets, TLC

VARIABLES objs, files, last, call

vars == <<objs, files, last, call>>

\* ------------------------------------------------------------- bounds
MaxVal == 1
NumParcels == 2

\* ---------------------------------------------------- python values
PyNone == [t |-> "NoneType", s |-> ""]
PyStr(x) == [t |-> "str", s |-> x]

NoRange == <<>>

Values == 0..MaxVal

RECURSIVE SeqsUpTo(_, _)
SeqsUpTo(S, n) ==
    IF n = 0 THEN {<<>>}
    ELSE LET shorter == SeqsUpTo(S, n - 1)
         IN  shorter \cup {Append(s, x) : s \in {t \in shorter : Len(t) = n - 1}, x \in S}

Range(s) == {s[i] : i \in DOMAIN s}

\* np.min, np.max of a non-empty vector
SeqMin(s) == LET vals == Range(s) IN CHOOSE m \in vals : \A v \in vals : m <= v
SeqMax(s) == LET vals == Range(s) IN CHOOSE m \in vals : \A v \in vals : m >= v

\* ------------------------------------------------------ colour model
Channels == <<"Red", "Green", "Blue", "Alpha">>

LutSize == 256
GreyIdx == (2 * LutSize) \div 10

Comp(dt, src, n, ch) == [dt |-> dt, src |-> src, n |-> n, ch |-> ch]

\* cmap(x) for a normalised x = num/den: look-up-table entry int(x * N),
\* clipped to the under/over colours (the table's two ends).
LutIndex(num, den) ==
    LET raw == (num * LutSize) \div den
    IN  IF raw < 0 THEN 0 ELSE IF raw > LutSize - 1 THEN LutSize - 1 ELSE raw

\* colors.Normalize(vmin, vmax) followed by the colormap look-up
\* (cm.ScalarMappable.to_rgba); vmin = vmax normalises everything to 0.
ToRgba(cmapname, vr, d) ==
    LET idx == IF vr[1] = vr[2] THEN 0 ELSE LutIndex(d - vr[1], vr[2] - vr[1])
    IN  [k \in 1..4 |-> Comp("float", cmapname, idx, Channels[k])]

\* greys(0.2): one fixed float RGBA
GreyColor == [k \in 1..4 |-> Comp("float", "Greys", GreyIdx, Channels[k])]

\* Custom mappables the caller may pass: one returning float RGBA, one
\* returning integer RGBA, one that raises.
Mappables == {"float_rgba", "int_rgba", "raises"}
NoMappable == "None"

CallMappable(m, d) ==
    [k \in 1..4 |-> Comp(IF m = "int_rgba" THEN "int" ELSE "float", m, d, Channels[k])]

ColorsDtype(mappable) == IF mappable = "int_rgba" THEN "int" ELSE "float"

\* colors[mask, :] = nullmap stores the grey under the dtype of `colors`:
\* a float array keeps it, an integer array truncates each component
\* (0 < R, G, B < 1 become 0, Alpha = 1.0 becomes 1).
StoreGrey(dtype) ==
    IF dtype = "float" THEN GreyColor
    ELSE [k \in 1..4 |-> Comp("int", "cast", IF Channels[k] = "Alpha" THEN 1 ELSE 0, Channels[k])]

\* str(colors[ii - 1, k])
Str(c) == [repr |-> c]

\* -------------------------------------------------- check_hemisphere
HemisphereOptions ==
    {PyStr("left"), PyStr("l"), PyStr("L"), PyStr("right"), PyStr("r"), PyStr("R"),
     PyNone, PyStr("lr"), PyStr("LR")}

\* mutant: the options list names the string 'None' instead of None
CheckHemisphereNoneString(hemisphere) ==
    IF hemisphere \notin (HemisphereOptions \ {PyNone}) \cup {PyStr("None")}
    THEN [outcome |-> "ValueError", ret |-> PyNone]
    ELSE IF hemisphere \in {PyStr("left"), PyStr("l"), PyStr("L")}
    THEN [outcome |-> "ok", ret |-> PyStr("left")]
    ELSE IF hemisphere \in {PyStr("right"), PyStr("r"), PyStr("R")}
    THEN [outcome |-> "ok", ret |-> PyStr("right")]
    ELSE [outcome |-> "ok", ret |-> PyNone]

\* The last membership test names the string 'None', so the value None
\* matches none of the three tests and falls off the end of the function,
\* which returns None as well.
CheckHemisphere(hemisphere) ==
    IF hemisphere \notin HemisphereOptions
    THEN [outcome |-> "ValueError", ret |-> PyNone]
    ELSE IF hemisphere \in {PyStr("left"), PyStr("l"), PyStr("L")}
    THEN [outcome |-> "ok", ret |-> PyStr("left")]
    ELSE IF hemisphere \in {PyStr("right"), PyStr("r"), PyStr("R")}
    THEN [outcome |-> "ok", ret |-> PyStr("right")]
    ELSE IF hemisphere \in {PyStr("None"), PyStr("lr"), PyStr("LR")}
    THEN [outcome |-> "ok", ret |-> PyNone]
    ELSE [outcome |-> "ok", ret |-> PyNone]

\* ---------------------------------------- map_unilateral_to_bilateral
PadSize == 360
PadSplit == 180

\* np.zeros(360) is float64; the model's scalars are small integers, which
\* float64 holds exactly, so the stored value is the number itself.
AsFloat64(x) == x

Zeros(n) == [i \in 1..n |-> 0]

\* NumPy slice assignment a[lo:hi] = v: v must have the slice's length, or
\* length 1, in which case its one value is broadcast over the slice.
Broadcastable(n, slicelen) == n = slicelen \/ n = 1

Broadcast(v, slicelen) ==
    IF Len(v) = slicelen THEN [i \in 1..slicelen |-> AsFloat64(v[i])]
    ELSE [i \in 1..slicelen |-> AsFloat64(v[1])]

\* lines 65, 68-69: pscalars_lr = np.zeros(360); pscalars_lr[:180] = pscalars
PadLeft(pscalars) == Broadcast(pscalars, PadSplit) \o Zeros(PadSize - PadSplit)

\* mutant: the right hemisphere is written into the left half
PadRightIntoLeftHalf(pscalars) == PadLeft(pscalars)

\* lines 65-67: pscalars_lr = np.zeros(360); pscalars_lr[180:] = pscalars
PadRight(pscalars) == Zeros(PadSplit) \o Broadcast(pscalars, PadSize - PadSplit)

\* ret is the returned array, same says whether it is the caller's own
\* array object, arg is the caller's array after the call.
MapUnilateralToBilateral(pscalars, hemisphere) ==
    LET h == CheckHemisphere(hemisphere)
    IN  IF h.outcome # "ok"
        THEN [outcome |-> h.outcome, ret |-> <<>>, same |-> FALSE, arg |-> pscalars]
        ELSE IF h.ret = PyNone
        THEN [outcome |-> "ok", ret |-> pscalars, same |-> TRUE, arg |-> pscalars]
        ELSE IF h.ret = PyStr("right")
        THEN IF Broadcastable(Len(pscalars), PadSize - PadSplit)
             THEN [outcome |-> "ok", ret |-> PadRight(pscalars), same |-> FALSE,
                   arg |-> pscalars]
             ELSE [outcome |-> "ValueError", ret |-> <<>>, same |-> FALSE, arg |-> pscalars]
        ELSE IF Broadcastable(Len(pscalars), PadSplit)
             THEN [outcome |-> "ok", ret |-> PadLeft(pscalars), same |-> FALSE,
                   arg |-> pscalars]
             ELSE [outcome |-> "ValueError", ret |-> <<>>, same |-> FALSE, arg |-> pscalars]

\* ------------------------------------------------- shape validators
\* What the validators read of their argument: its Python type, and for
\* an array its ndim and size.
UnilateralSize == 180
BilateralSize == 360
DenseSize == 91282

\* mutant: the unilateral validator tests for the bilateral size
CheckPscalarsUnilateralBilateralSize(pscalars) ==
    IF pscalars.type # "ndarray" THEN "RuntimeError"
    ELSE IF pscalars.ndim # 1 THEN "RuntimeError"
    ELSE IF pscalars.size # BilateralSize THEN "RuntimeError"
    ELSE "ok"

CheckPscalarsUnilateral(pscalars) ==
    IF pscalars.type # "ndarray" THEN "RuntimeError"
    ELSE IF pscalars.ndim # 1 THEN "RuntimeError"
    ELSE IF pscalars.size # UnilateralSize THEN "RuntimeError"
    ELSE "ok"

CheckPscalarsBilateral(pscalars) ==
    IF pscalars.type # "ndarray" THEN "RuntimeError"
    ELSE IF pscalars.ndim # 1 THEN "RuntimeError"
    ELSE IF pscalars.size # BilateralSize THEN "RuntimeError"
    ELSE "ok"

CheckDscalars(dscalars) ==
    IF dscalars.type # "ndarray" THEN "RuntimeError"
    ELSE IF dscalars.ndim # 1 THEN "RuntimeError"
    ELSE IF dscalars.size # DenseSize THEN "RuntimeError"
    ELSE "ok"

\* ------------------------------------------- collaborators (wbplot.utils.plots)
DefaultCmap == "DEFAULT_CMAP"
NoCmap == "None"

\* plots.check_cmap: None selects config.DEFAULT_CMAP, a known name is kept
CheckCmap(cmap) == IF cmap = NoCmap THEN DefaultCmap ELSE cmap

\* plots.check_vrange: None stays None, a (min, max) tuple with min < max is kept
CheckVrange(vrange) == vrange

\* ------------------------------------------------------- class Cifti
\* The Label elements self.extensions[0][1][0][1][ii] of a template with
\* n parcels: entry 0 is the background label, entries 1..n the parcels.
TemplateEntry(ii) ==
    [Key   |-> ii,
     Red   |-> Str(Comp("float", "template", ii, "Red")),
     Green |-> Str(Comp("float", "template", ii, "Green")),
     Blue  |-> Str(Comp("float", "template", ii, "Blue")),
     Alpha |-> Str(Comp("float", "template", ii, "Alpha"))]

TemplateTable(n) == [ii \in 0..n |-> TemplateEntry(ii)]

\* header.extensions[0] content as stored in the template file
RawContent(n) == [form |-> "raw", table |-> TemplateTable(n)]

\* eT.fromstring(content)
EtFromString(content) == content.table

\* eT.tostring(tree): a fresh serialisation, not the template's bytes
EtToString(tree) == [form |-> "etree", table |-> tree]

\* Cifti.__init__
CiftiInit(n) ==
    [extensions |-> EtFromString(RawContent(n)),
     vrange     |-> NoRange,
     ischanged  |-> FALSE,
     content    |-> RawContent(n)]

\* lines 214-222: the general mapping, one RGBA per scalar
GeneralColors(data, cm, vr, mappable) ==
    [i \in 1..Len(data) |->
        IF mappable = NoMappable THEN ToRgba(cm, vr, data[i])
        ELSE CallMappable(mappable, data[i])]

\* lines 224-227: zero scalars are overwritten with the grey
MaskZeros(colors, data, dtype) ==
    [i \in 1..Len(data) |-> IF data[i] = 0 THEN StoreGrey(dtype) ELSE colors[i]]

SetEntry(e, c) ==
    [e EXCEPT !.Red = Str(c[1]), !.Green = Str(c[2]),
              !.Blue = Str(c[3]), !.Alpha = Str(c[4])]

\* mutant: entry ii takes colors[ii] instead of colors[ii - 1]
PatchTableOffByOne(table, colors) ==
    LET n == Len(colors)
    IN  [ii \in DOMAIN table |->
            IF ii >= 1 /\ ii + 1 <= n THEN SetEntry(table[ii], colors[ii + 1])
            ELSE table[ii]]

\* lines 229-237: entries 1, 2, ... are patched in order; colors[ii - 1]
\* raises IndexError at the first ii past the end of `colors`, leaving the
\* earlier entries patched.
PatchTable(table, colors) ==
    LET n == Len(colors)
    IN  [ii \in DOMAIN table |->
            IF ii >= 1 /\ ii <= n THEN SetEntry(table[ii], colors[ii])
            ELSE table[ii]]

\* range(1, len(table)) stays inside `colors`
LoopCompletes(table, colors) == Cardinality(DOMAIN table) - 1 <= Len(colors)

\* mutant: the dirty flag is flipped instead of set
PatchLoopFlipsFlag(self, colors) ==
    IF LoopCompletes(self.extensions, colors)
    THEN [self |-> [self EXCEPT !.extensions = PatchTable(self.extensions, colors),
                                !.ischanged = ~self.ischanged],
          outcome |-> "ok"]
    ELSE [self |-> [self EXCEPT !.extensions = PatchTable(self.extensions, colors)],
          outcome |-> "IndexError"]

\* lines 229-238
PatchLoop(self, colors) ==
    IF LoopCompletes(self.extensions, colors)
    THEN [self |-> [self EXCEPT !.extensions = PatchTable(self.extensions, colors),
                                !.ischanged = TRUE],
          outcome |-> "ok"]
    ELSE [self |-> [self EXCEPT !.extensions = PatchTable(self.extensions, colors)],
          outcome |-> "IndexError"]

\* lines 216-217
UsedRange(data, vr) == IF vr = NoRange THEN <<SeqMin(data), SeqMax(data)>> ELSE vr

\* Cifti.set_cmap, with the state it leaves behind when it raises
SetCmap(self, data, cmap, vrange, mappable) ==
    LET cm == CheckCmap(cmap)
        vr == CheckVrange(vrange)
    IN  IF mappable = NoMappable
        THEN IF vr = NoRange /\ Len(data) = 0
             THEN [self |-> self, outcome |-> "ValueError"]
             ELSE LET s1 == [self EXCEPT !.vrange = UsedRange(data, vr)]
                      colors == MaskZeros(GeneralColors(data, cm, s1.vrange, mappable),
                                          data, ColorsDtype(mappable))
                  IN  PatchLoop(s1, colors)
        ELSE IF mappable = "raises" /\ Len(data) > 0
             THEN [self |-> self, outcome |-> "MappableError"]
             ELSE IF Len(data) = 0
                  THEN [self |-> self, outcome |-> "IndexError"]
                  ELSE PatchLoop(self, MaskZeros(GeneralColors(data, cm, NoRange, mappable),
                                                 data, ColorsDtype(mappable)))

\* Cifti.write_extensions
WriteExtensions(self) == [self EXCEPT !.content = EtToString(self.extensions)]

\* mutant: save re-serializes whatever the dirty flag says
SaveSelfAlways(self) == WriteExtensions(self)

\* Cifti.save: the object after the call and the image handed to nib.save
SaveSelf(self) == IF self.ischanged THEN WriteExtensions(self) ELSE self

SavedImage(self) == [payload |-> "template", content |-> SaveSelf(self).content]

NoFile == [payload |-> "absent", content |-> [form |-> "absent", table |-> <<>>]]

\* ------------------------------------------------------------ inputs
Fouts == {"out.dlabel.nii"}
Cmaps == {NoCmap, "Greys"}
Ranges == {NoRange} \cup {r \in Values \X Values : r[1] < r[2]}

\* data shorter than, as long as, and longer than the template's parcel list
DataVectors == SeqsUpTo(Values, NumParcels + 1)

\* last[o]: the latest call on object o, its arguments and how it ended;
\* again says that it repeated the call before it, which had completed.
NoCall == [op |-> "none", data |-> <<>>, cmap |-> NoCmap, vrange |-> NoRange,
           mappable |-> NoMappable, fout |-> "", outcome |-> "none", again |-> FALSE]

NoPure == [op |-> "none"]

\* --------------------------------------------------- Cifti life cycle
Init ==
    /\ objs = [o \in {1} |-> CiftiInit(NumParcels)]
    /\ files = [f \in Fouts |-> NoFile]
    /\ last = [o \in {1} |-> NoCall]
    /\ call = NoPure

Repeats(prev, data, cmap, vrange, mappable) ==
    /\ prev.op = "set_cmap" /\ prev.outcome = "ok"
    /\ prev.data = data /\ prev.cmap = cmap /\ prev.vrange = vrange
    /\ prev.mappable = mappable

DoSetCmap(o, data, cmap, vrange, mappable) ==
    LET r == SetCmap(objs[o], data, cmap, vrange, mappable)
    IN  /\ objs' = [objs EXCEPT ![o] = r.self]
        /\ last' = [last EXCEPT ![o] = [op |-> "set_cmap", data |-> data, cmap |-> cmap,
                                        vrange |-> vrange, mappable |-> mappable,
                                        fout |-> "", outcome |-> r.outcome,
                                        again |-> Repeats(last[o], data, cmap, vrange, mappable)]]
        /\ UNCHANGED <<files, call>>

DoSave(o, fout) ==
    /\ objs' = [objs EXCEPT ![o] = SaveSelf(objs[o])]
    /\ files' = [files EXCEPT ![fout] = SavedImage(objs[o])]
    /\ last' = [last EXCEPT ![o] = [NoCall EXCEPT !.op = "save", !.fout = fout, !.outcome = "ok"]]
    /\ UNCHANGED call

\* Spec: set_cmap and save in any order on one object, default colormap
SetCmapDefault ==
    \E o \in DOMAIN objs, data \in DataVectors, vrange \in Ranges :
        DoSetCmap(o, data, NoCmap, vrange, NoMappable)

SetCmapRaising ==
    \E o \in DOMAIN objs, data \in DataVectors :
        DoSetCmap(o, data, NoCmap, NoRange, "raises")

Save == \E o \in DOMAIN objs, fout \in Fouts : DoSave(o, fout)

Next == SetCmapDefault \/ SetCmapRaising \/ Save

Spec == Init /\ [][Next]_vars

\* SpecColor: set_cmap alone, over every colormap, range and mappable
ColorDefault ==
    \E o \in DOMAIN objs, data \in DataVectors, cmap \in Cmaps, vrange \in Ranges :
        DoSetCmap(o, data, cmap, vrange, NoMappable)

ColorMappable ==
    \E o \in DOMAIN objs, data \in DataVectors, mappable \in Mappables, vrange \in Ranges :
        DoSetCmap(o, data, NoCmap, vrange, mappable)

NextColor == ColorDefault \/ ColorMappable

SpecColor == Init /\ [][NextColor]_vars

\* ------------------------------------------- write_parcellated_image
\* Number of parcels in the label table of constants.DLABEL_FILE
DlabelParcels == 360

\* c is the local Cifti object as the call leaves it; wrote says whether
\* nib.save was reached, image is what it was handed.
WriteParcellatedImage(data, hemisphere, vrange, cmap) ==
    LET h  == CheckHemisphere(hemisphere)
        m  == MapUnilateralToBilateral(data, hemisphere)
        c0 == CiftiInit(DlabelParcels)
        r  == SetCmap(c0, m.ret, cmap, vrange, NoMappable)
    IN  IF h.outcome # "ok"
        THEN [outcome |-> h.outcome, wrote |-> FALSE, c |-> c0, image |-> NoFile]
        ELSE IF m.outcome # "ok"
        THEN [outcome |-> m.outcome, wrote |-> FALSE, c |-> c0, image |-> NoFile]
        ELSE IF r.outcome # "ok"
        THEN [outcome |-> r.outcome, wrote |-> FALSE, c |-> r.self, image |-> NoFile]
        ELSE [outcome |-> "ok", wrote |-> TRUE, c |-> SaveSelf(r.self),
              image |-> SavedImage(r.self)]

\* ------------------------------------------- inputs of the functions
HemisphereInputs ==
    HemisphereOptions \cup {PyStr("None"), PyStr("Left"), PyStr("both"), PyStr("")}

PadLengths ==
    {0, 1, PadSplit - 1, PadSplit, PadSplit + 1, PadSize - 1, PadSize, PadSize + 1}

\* a vector whose first entry is a and whose other entries are b
HeadTail(n, a, b) == IF n = 0 THEN <<>> ELSE <<a>> \o [i \in 1..(n - 1) |-> b]

PadVectors == {HeadTail(n, a, b) : n \in PadLengths, a \in 0..MaxVal, b \in 1..(MaxVal + 1)}

ArraySizes ==
    {0, 1, UnilateralSize - 1, UnilateralSize, UnilateralSize + 1,
     BilateralSize - 1, BilateralSize, BilateralSize + 1,
     DenseSize - 1, DenseSize, DenseSize + 1}

\* ndarray of any shape, a subclass instance (numpy.ma.MaskedArray), a list
ArrayArgs ==
    {[type |-> t, ndim |-> d, size |-> n] :
        t \in {"ndarray", "MaskedArray"}, d \in 0..MaxVal + 1, n \in ArraySizes}
    \cup {[type |-> "list", ndim |-> 1, size |-> n] : n \in ArraySizes}

\* --------------------------------------- SpecPure: the plain functions
CallCheckHemisphere ==
    \E hemisphere \in HemisphereInputs :
        /\ call' = [op |-> "check_hemisphere", hemisphere |-> hemisphere,
                    result |-> CheckHemisphere(hemisphere)]
        /\ UNCHANGED <<objs, files, last>>

CallMapUnilateralToBilateral ==
    \E pscalars \in PadVectors, hemisphere \in HemisphereInputs :
        /\ call' = [op |-> "map_unilateral_to_bilateral", pscalars |-> pscalars,
                    hemisphere |-> hemisphere,
                    result |-> MapUnilateralToBilateral(pscalars, hemisphere)]
        /\ UNCHANGED <<objs, files, last>>

CallCheckPscalarsUnilateral ==
    \E x \in ArrayArgs :
        /\ call' = [op |-> "check_pscalars_unilateral", arg |-> x, after |-> x,
                    outcome |-> CheckPscalarsUnilateral(x)]
        /\ UNCHANGED <<objs, files, last>>

CallCheckPscalarsBilateral ==
    \E x \in ArrayArgs :
        /\ call' = [op |-> "check_pscalars_bilateral", arg |-> x, after |-> x,
                    outcome |-> CheckPscalarsBilateral(x)]
        /\ UNCHANGED <<objs, files, last>>

CallCheckDscalars ==
    \E x \in ArrayArgs :
        /\ call' = [op |-> "check_dscalars", arg |-> x, after |-> x,
                    outcome |-> CheckDscalars(x)]
        /\ UNCHANGED <<objs, files, last>>

NextPure ==
    \/ CallCheckHemisphere
    \/ CallMapUnilateralToBilateral
    \/ CallCheckPscalarsUnilateral
    \/ CallCheckPscalarsBilateral
    \/ CallCheckDscalars

SpecPure == Init /\ [][NextPure]_vars

\* ----------------------------------- SpecWrite: write_parcellated_image
\* One call per behaviour: the arguments are drawn at the start, the
\* action runs the function on them.
WriteVectors == PadVectors
WriteRanges == {NoRange, <<0, MaxVal + 1>>}

PendingWrite(data, fout, hemisphere, vrange, cmap) ==
    [op |-> "write_parcellated_image", data |-> data, fout |-> fout,
     hemisphere |-> hemisphere, vrange |-> vrange, cmap |-> cmap,
     outcome |-> "pending", c_vrange |-> NoRange]

InitWrite ==
    /\ objs = [o \in {1} |-> CiftiInit(NumParcels)]
    /\ files = [f \in Fouts |-> NoFile]
    /\ last = [o \in {1} |-> NoCall]
    /\ call \in {PendingWrite(data, fout, hemisphere, vrange, cmap) :
                    data \in WriteVectors, fout \in Fouts, hemisphere \in HemisphereInputs,
                    vrange \in WriteRanges, cmap \in Cmaps}

CallWriteParcellatedImage ==
    /\ call.outcome = "pending"
    /\ LET r == WriteParcellatedImage(call.data, call.hemisphere, call.vrange, call.cmap)
       IN  /\ call' = [call EXCEPT !.outcome = r.outcome, !.c_vrange = r.c.vrange]
           /\ files' = IF r.wrote THEN [files EXCEPT ![call.fout] = r.image] ELSE files
    /\ UNCHANGED <<objs, last>>

NextWrite == CallWriteParcellatedImage

SpecWrite == InitWrite /\ [][NextWrite]_vars

\* ============================================================ claims
LeftTags == {PyStr("l"), PyStr("L"), PyStr("left")}
RightTags == {PyStr("r"), PyStr("R"), PyStr("right")}
NoneTags == {PyNone, PyStr("lr"), PyStr("LR")}

WriteDone == call.op = "write_parcellated_image" /\ call.outcome # "pending"

\* C1: write_parcellated_image raises, and writes no file, whenever the
\* data vector's length is not 180 under a left/right tag, or not 360
\* under a no-hemisphere tag.
C1_WrongLengthRejected ==
    WriteDone =>
        LET expected == IF call.hemisphere \in LeftTags \cup RightTags
                        THEN UnilateralSize ELSE BilateralSize
        IN  (call.hemisphere \in LeftTags \cup RightTags \cup NoneTags
             /\ Len(call.data) # expected)
            => (call.outcome # "ok" /\ files[call.fout] = NoFile)

\* C2: check_hemisphere returns 'left' for 'l', 'L', 'left', 'right' for
\* 'r', 'R', 'right', None for None, 'lr', 'LR', and raises for every
\* other value, the string 'None' included.
C2_HemisphereNormalized ==
    call.op = "check_hemisphere" =>
        /\ call.hemisphere \in LeftTags
              => call.result = [outcome |-> "ok", ret |-> PyStr("left")]
        /\ call.hemisphere \in RightTags
              => call.result = [outcome |-> "ok", ret |-> PyStr("right")]
        /\ call.hemisphere \in NoneTags
              => call.result = [outcome |-> "ok", ret |-> PyNone]
        /\ call.hemisphere \notin LeftTags \cup RightTags \cup NoneTags
              => call.result.outcome = "ValueError"

C2_Witness ==
    /\ call.op = "check_hemisphere"
    /\ call.hemisphere = PyNone
    /\ call.result = [outcome |-> "ok", ret |-> PyNone]

MapDone180 ==
    /\ call.op = "map_unilateral_to_bilateral"
    /\ Len(call.pscalars) = UnilateralSize
    /\ call.hemisphere \in LeftTags \cup RightTags \cup NoneTags

LeftPadded(v, r) ==
    /\ \A i \in 1..UnilateralSize : r[i] = v[i]
    /\ \A i \in (UnilateralSize + 1)..BilateralSize : r[i] = 0

RightPadded(v, r) ==
    /\ \A i \in 1..UnilateralSize : r[UnilateralSize + i] = v[i]
    /\ \A i \in 1..UnilateralSize : r[i] = 0

\* C3 as stated: for every 180-entry vector and every valid tag the result
\* has 360 entries; left/right place the input in their half and zero the
\* other, a no-hemisphere tag returns the input; the input is not modified.
C3_Original ==
    MapDone180 =>
        /\ call.result.outcome = "ok"
        /\ Len(call.result.ret) = BilateralSize
        /\ call.hemisphere \in LeftTags => LeftPadded(call.pscalars, call.result.ret)
        /\ call.hemisphere \in RightTags => RightPadded(call.pscalars, call.result.ret)
        /\ call.hemisphere \in NoneTags => call.result.ret = call.pscalars
        /\ call.result.arg = call.pscalars

\* C3 amended: for every 180-entry vector, a left/right tag yields a
\* 360-entry vector with the input in its half and zeros in the other; a
\* no-hemisphere tag returns the caller's own array, with the length it
\* came with; the input is not modified.
C3_PaddedOrPassedThrough ==
    MapDone180 =>
        /\ call.result.outcome = "ok"
        /\ call.hemisphere \in LeftTags =>
              /\ Len(call.result.ret) = BilateralSize
              /\ LeftPadded(call.pscalars, call.result.ret)
              /\ ~call.result.same
        /\ call.hemisphere \in RightTags =>
              /\ Len(call.result.ret) = BilateralSize
              /\ RightPadded(call.pscalars, call.result.ret)
              /\ ~call.result.same
        /\ call.hemisphere \in NoneTags =>
              /\ call.result.ret = call.pscalars
              /\ call.result.same
        /\ call.result.arg = call.pscalars

C3_Witness ==
    /\ MapDone180
    /\ call.hemisphere = PyStr("R")
    /\ call.pscalars[1] # call.pscalars[UnilateralSize]
    /\ call.result.ret[UnilateralSize + 1] = call.pscalars[1]

IsValidator(op) ==
    op \in {"check_pscalars_unilateral", "check_pscalars_bilateral", "check_dscalars"}

ExpectedSize(op) ==
    IF op = "check_pscalars_unilateral" THEN UnilateralSize
    ELSE IF op = "check_pscalars_bilateral" THEN BilateralSize
    ELSE DenseSize

\* C4: each shape validator raises exactly when its input is not a NumPy
\* array, or not one-dimensional, or not of the expected size (180, 360,
\* 91282), and leaves its input as it was.
C4_ValidatorsExact ==
    IsValidator(call.op) =>
        /\ call.outcome # "ok" <=>
              \/ call.arg.type # "ndarray"
              \/ call.arg.ndim # 1
              \/ call.arg.size # ExpectedSize(call.op)
        /\ call.outcome \in {"ok", "RuntimeError"}
        /\ call.after = call.arg

C4_Witness ==
    /\ call.op = "check_dscalars"
    /\ call.arg = [type |-> "ndarray", ndim |-> 1, size |-> DenseSize]
    /\ call.outcome = "ok"

SetCmapDone(o) == last[o].op = "set_cmap" /\ last[o].outcome = "ok"

Parcels(o) == DOMAIN objs[o].extensions \ {0}

Rgba(e) == <<e.Red, e.Green, e.Blue, e.Alpha>>

StrColor(c) == <<Str(c[1]), Str(c[2]), Str(c[3]), Str(c[4])>>

\* the general mapping of one scalar under the arguments of the latest call
GeneralColor(o, d) ==
    IF last[o].mappable = NoMappable
    THEN ToRgba(CheckCmap(last[o].cmap), objs[o].vrange, d)
    ELSE CallMappable(last[o].mappable, d)

\* C5: after a completed set_cmap every parcel whose scalar is exactly 0
\* carries the fixed grey, Greys(0.2), whatever vrange, cmap or mappable was
\* given, and every other parcel carries its general-mapping colour.
C5_ZeroIsGrey ==
    \A o \in DOMAIN objs :
        SetCmapDone(o) =>
            \A ii \in Parcels(o) :
                Rgba(objs[o].extensions[ii]) =
                    IF last[o].data[ii] = 0 THEN StrColor(GreyColor)
                    ELSE StrColor(GeneralColor(o, last[o].data[ii]))

\* the colour set_cmap computes for one scalar: the general mapping, then
\* the grey override stored under the dtype of the colour array
ComputedColor(o, d) ==
    IF d = 0 THEN StoreGrey(ColorsDtype(last[o].mappable)) ELSE GeneralColor(o, d)

\* C6: after a completed set_cmap, Red/Green/Blue/Alpha of every entry
\* ii >= 1 are the components of the colour computed for data[ii-1]; entry
\* 0, the number of entries and every other attribute are as loaded.
C6_TablePatched ==
    \A o \in DOMAIN objs :
        /\ DOMAIN objs[o].extensions = DOMAIN TemplateTable(NumParcels)
        /\ objs[o].extensions[0] = TemplateTable(NumParcels)[0]
        /\ \A ii \in DOMAIN objs[o].extensions :
              objs[o].extensions[ii].Key = TemplateTable(NumParcels)[ii].Key
        /\ SetCmapDone(o) =>
              \A ii \in Parcels(o) :
                  Rgba(objs[o].extensions[ii]) = StrColor(ComputedColor(o, last[o].data[ii]))

C6_Witness ==
    \E o \in DOMAIN objs :
        /\ SetCmapDone(o)
        /\ Len(last[o].data) > NumParcels
        /\ last[o].data[1] = 0
        /\ last[o].data[NumParcels] # 0
        /\ objs[o].extensions[NumParcels] # TemplateTable(NumParcels)[NumParcels]

\* C7: ischanged is False until a set_cmap completes and True ever after;
\* save re-serializes the tree into the header exactly when ischanged is
\* True, so a file saved after a completed set_cmap carries the in-memory
\* colour table and a save before any leaves the template's content.
C7_DirtyFlagAndSave ==
    [][\A o \in DOMAIN objs :
          /\ objs[o].ischanged => objs'[o].ischanged
          /\ (~objs[o].ischanged /\ objs'[o].ischanged)
                => (last'[o].op = "set_cmap" /\ last'[o].outcome = "ok")
          /\ (last'[o].op = "set_cmap" /\ last'[o].outcome = "ok") => objs'[o].ischanged
          /\ last'[o].op = "save" =>
                /\ objs'[o].content =
                      IF objs[o].ischanged THEN EtToString(objs[o].extensions)
                      ELSE RawContent(NumParcels)
                /\ files'[last'[o].fout] =
                      [payload |-> "template", content |-> objs'[o].content]
                /\ objs'[o].extensions = objs[o].extensions
                /\ objs'[o].ischanged = objs[o].ischanged
      ]_vars

C7_Witness ==
    \E o \in DOMAIN objs :
        /\ last[o].op = "save"
        /\ objs[o].ischanged
        /\ files[last[o].fout].content = EtToString(objs[o].extensions)
        /\ objs[o].extensions # TemplateTable(NumParcels)

\* C8: a set_cmap that repeats the completed call before it (same data,
\* range, colormap, mappable) completes too and leaves the colour table,
\* the recorded vrange and the dirty flag as the first call left them; and
\* the colour table a completed call leaves is the one a freshly loaded
\* object given the same arguments ends with.
C8_Idempotent ==
    [][\A o \in DOMAIN objs :
          /\ last'[o].again =>
                /\ last'[o].outcome = "ok"
                /\ objs'[o] = objs[o]
          /\ (last'[o].op = "set_cmap" /\ last'[o].outcome = "ok") =>
                objs'[o].extensions =
                    SetCmap(CiftiInit(NumParcels), last'[o].data, last'[o].cmap,
                            last'[o].vrange, last'[o].mappable).self.extensions
      ]_vars

C8_Witness ==
    \E o \in DOMAIN objs :
        /\ last[o].again
        /\ last[o].vrange = NoRange
        /\ \E i \in DOMAIN last[o].data : last[o].data[i] # 0
        /\ objs[o].extensions # TemplateTable(NumParcels)

\* C9: with no explicit range and no mappable, the recorded range is the
\* minimum and maximum of the vector the caller supplied, for set_cmap and
\* for write_parcellated_image under a left/right tag; an explicit range is
\* recorded unchanged.
C9_RangeOfCallerData ==
    /\ \A o \in DOMAIN objs :
          (SetCmapDone(o) /\ last[o].mappable = NoMappable) =>
              objs[o].vrange =
                  IF last[o].vrange = NoRange
                  THEN <<SeqMin(last[o].data), SeqMax(last[o].data)>>
                  ELSE last[o].vrange
    /\ (WriteDone /\ call.outcome = "ok") =>
          /\ call.vrange # NoRange => call.c_vrange = call.vrange
          /\ (/\ call.vrange = NoRange
              /\ call.hemisphere \in LeftTags \cup RightTags
              /\ Len(call.data) = UnilateralSize) =>
                call.c_vrange = <<SeqMin(call.data), SeqMax(call.data)>>

\* C10: a set_cmap that raises leaves the colour table, the recorded vrange
\* and the dirty flag as they were; hence ischanged = False implies the
\* colour table is the one parsed from the template.
C10_AllOrNothing ==
    [][\A o \in DOMAIN objs :
          /\ (last'[o].op = "set_cmap" /\ last'[o].outcome # "ok") => objs'[o] = objs[o]
          /\ ~objs'[o].ischanged => objs'[o].extensions = TemplateTable(NumParcels)
      ]_vars

====
